---- MODULE Spec2Model ----
(***************************************************************************)
(* A model of process.py: the naive Bayes word model (NaiveBayes), the     *)
(* section filter (proc, filter_body, proc_all), the interactive           *)
(* reinforcement loops, the incremental publisher (proc_all with           *)
(* pub_dates.json) and the bounded list of recent posts.                   *)
(*                                                                         *)
(* Scores.  check_spam returns a float: a sum of natural logarithms of     *)
(* ratios of small integers.  The model keeps the score as the exact       *)
(* rational whose logarithm it is (two lists of integer factors), and      *)
(* compares it with 1 in arbitrary precision.  Where the exact sum is 0    *)
(* although some term is not, the float sum is a rounding residue whose    *)
(* sign the model leaves open (Signs).                                     *)
(***************************************************************************)
EXTENDS Integers, Sequences, FiniteSets, TLC

VARIABLES
    nb,          \* the global NaiveBayes object: [counts, spams, non_spams]
    pc,          \* position of the running command ("idle": none runs)
    cut,         \* interactive 'm': the word list being labelled
    yn,          \* interactive 'm': the answer given, "" once another
                 \* command has changed the model
    guess,       \* interactive 'm': sign of the last score the loop tested
    reps,        \* interactive 'm': repeated training calls made by the loop
    marks,       \* history: the bag of training calls <<label, word set>>
    proc_res,    \* proc: the last run under the current model
    text,        \* weekly/docs/issue-N.md: the content of each issue
    now,         \* the clock read by datetime.now()
    pub_file,    \* pub_dates.json
    out_file,    \* docs/issue-N.md: the filtered document of each issue
    rss_file,    \* rss.xml
    pub_dates,   \* proc_all: the table in memory
    idx,         \* proc_all: the issue the loop is at
    changed,     \* proc_all: the flag of that name
    last_posts,  \* proc_all: the list of recent posts
    offered,     \* history: the entries given to last_posts_append so far
    run,         \* history: what the current or last proc_all run did
    prev         \* history: how the run before ended, and on what content

nbvars == <<nb, pc, cut, yn, guess, reps, marks, proc_res>>

pubvars == <<text, now, pub_file, out_file, rss_file, pub_dates, idx,
             changed, last_posts, offered, run, prev>>

vars == <<nbvars, pubvars>>

----------------------------------------------------------------------------
(* Bounds of the model *)

\* words the tokenizer can return
Words == {"a", "b", "c"}

\* training commands (train, mark, interactive m) started in one behaviour
MaxTrain == 4

\* cap on either total, so that a loop that does not stop still has finitely
\* many states
MaxCount == 3 * MaxTrain + 3

----------------------------------------------------------------------------------------------------------------------------------------
(* Arithmetic on products of small factors.  The helpers are functions, so *)
(* that their arguments are values; arbitrary-precision naturals are       *)
(* little-endian digit lists in base 1000.                                 *)

Factors == Seq(Nat)

\* b * k + carry, for 0 < k < 1000
BigMulCarry[b \in Factors, k \in Nat, carry \in Nat] ==
    IF b = << >>
      THEN IF carry = 0 THEN << >> ELSE <<carry>>
      ELSE <<(Head(b) * k + carry) % 1000>>
           \o BigMulCarry[Tail(b), k, (Head(b) * k + carry) \div 1000]

BigProd[factors \in Factors] ==
    IF factors = << >> THEN <<1>>
    ELSE BigMulCarry[BigProd[Tail(factors)], Head(factors), 0]

BigCmpFrom[a \in Factors, b \in Factors, i \in Nat] ==
    IF i = 0 THEN 0
    ELSE IF a[i] > b[i] THEN 1
    ELSE IF a[i] < b[i] THEN -1
    ELSE BigCmpFrom[a, b, i - 1]

\* -1, 0, 1 as a < b, a = b, a > b
BigCmp[a \in Factors, b \in Factors] ==
    IF Len(a) > Len(b) THEN 1
    ELSE IF Len(a) < Len(b) THEN -1
    ELSE BigCmpFrom[a, b, Len(a)]

Repeat[s \in Factors, n \in Nat] ==
    IF n = 0 THEN << >> ELSE s \o Repeat[s, n - 1]

RemoveOne[s \in Factors, x \in Nat] ==
    IF Head(s) = x THEN Tail(s) ELSE <<Head(s)>> \o RemoveOne[Tail(s), x]

\* the pair c with x put in front of its first list
ConsFirst[x \in Nat, c \in Factors \X Factors] == <<<<x>> \o c[1], c[2]>>

\* <<num, den>> with the factors the two lists share struck out
Cancel[num \in Factors, den \in Factors] ==
    IF num = << >> THEN <<num, den>>
    ELSE IF \E i \in DOMAIN den : den[i] = Head(num)
      THEN Cancel[Tail(num), RemoveOne[den, Head(num)]]
    ELSE ConsFirst[Head(num), Cancel[Tail(num), den]]

\* the product of the factors stays below limit
Fits[factors \in Factors, limit \in Nat] ==
    \/ factors = << >>
    \/ /\ Head(factors) <= limit
       /\ Fits[Tail(factors), limit \div Head(factors)]

Prod[factors \in Factors] ==
    IF factors = << >> THEN 1 ELSE Head(factors) * Prod[Tail(factors)]

CmpInt[a \in Nat, b \in Nat] == IF a > b THEN 1 ELSE IF a < b THEN -1 ELSE 0

CmpCancelled[c \in Factors \X Factors] ==
    IF Fits[c[1], 2000000000] /\ Fits[c[2], 2000000000]
      THEN CmpInt[Prod[c[1]], Prod[c[2]]]
      ELSE BigCmp[BigProd[c[1]], BigProd[c[2]]]

\* -1, 0, 1 as the product of num is below, equal to, above that of den
CmpProducts(num, den) == CmpCancelled[Cancel[num, den]]

----------------
(* NaiveBayes *)

\* NaiveBayes(): no counts, both totals 0
NaiveBayesInit ==
    [counts |-> [w \in {} |-> <<0, 0>>], spams |-> 0, non_spams |-> 0]

\* self.counts.get(w, (0, 0))
\* set(word_list): a list of tokens, repeats and all, as a set
word_set(word_list) == {word_list[i] : i \in DOMAIN word_list}

CountsGet(counts, w) == IF w \in DOMAIN counts THEN counts[w] ELSE <<0, 0>>

mark_spam(m, word_list) ==
    [counts |->
        [w \in (DOMAIN m.counts) \cup word_list |->
            IF w \in word_list
              THEN <<CountsGet(m.counts, w)[1] + 1, CountsGet(m.counts, w)[2]>>
              ELSE m.counts[w]],
     spams |-> m.spams + 1,
     non_spams |-> m.non_spams]

\* mark_not_spam counting in the spam column, c[0] += 1
mark_not_spam_spam_column(m, word_list) ==
    [counts |->
        [w \in (DOMAIN m.counts) \cup word_list |->
            IF w \in word_list
              THEN <<CountsGet(m.counts, w)[1] + 1, CountsGet(m.counts, w)[2]>>
              ELSE m.counts[w]],
     spams |-> m.spams,
     non_spams |-> m.non_spams + 1]

mark_not_spam(m, word_list) ==
    [counts |->
        [w \in (DOMAIN m.counts) \cup word_list |->
            IF w \in word_list
              THEN <<CountsGet(m.counts, w)[1], CountsGet(m.counts, w)[2] + 1>>
              ELSE m.counts[w]],
     spams |-> m.spams,
     non_spams |-> m.non_spams + 1]

\* a dump that leaves non_spams out
dump_without_non_spams(m) == [counts |-> m.counts, spams |-> m.spams]

\* dump: {'counts': self.counts, 'spams': self.spams, 'non_spams': ...}
dump(m) == [counts |-> m.counts, spams |-> m.spams, non_spams |-> m.non_spams]

\* load: cls(**j), a key that is not given taking the default of __init__
load(j) ==
    [counts |-> IF "counts" \in DOMAIN j THEN j.counts ELSE << >>,
     spams |-> IF "spams" \in DOMAIN j THEN j.spams ELSE 0,
     non_spams |-> IF "non_spams" \in DOMAIN j THEN j.non_spams ELSE 0]

\* JSON values: a number, an array of values, an object of named values
JNumber(n) == <<"number", n>>
JArray(elems) == <<"array", elems>>
JObject(members) == <<"object", members>>

\* json.dumps of what dump returns: counts is a dict of two-element lists
json_dumps(d) ==
    JObject([k \in DOMAIN d |->
        IF k = "counts"
          THEN JObject([w \in DOMAIN d[k] |->
                  JArray(<<JNumber(d[k][w][1]), JNumber(d[k][w][2])>>)])
          ELSE JNumber(d[k])])

\* json.loads of such a text: objects become dicts, arrays lists
json_loads(j) ==
    [k \in DOMAIN j[2] |->
        IF j[2][k][1] = "object"
          THEN [w \in DOMAIN j[2][k][2] |->
                  <<j[2][k][2][w][2][1][2], j[2][k][2][w][2][2][2]>>]
          ELSE j[2][k][2]]

\* dump_nb() then load_nb(): the model through naive_bayes.json
load_nb(fp) == load(json_loads(fp))
dump_nb(m) == json_dumps(dump(m))

\* A score: ln(product of num / product of den); nonzero: some term of the
\* sum it was computed as is not 0.
Scores == [num : Factors, den : Factors, nonzero : BOOLEAN]

\* Impact with the l_ws = 1 of get_impact on one side of the ratio
Impact_l_ws_1(m, w, l_ws, header_word_set, mult) ==
    LET c_w_s  == CountsGet(m.counts, w)[1]
        c_w_ns == CountsGet(m.counts, w)[2]
        n == <<c_w_s + 1, m.non_spams + 1>>
        d == <<m.spams + l_ws, c_w_ns + 1>>
        k == IF w \in header_word_set THEN mult ELSE 1
    IN  [num |-> Repeat[n, k], den |-> Repeat[d, k],
         nonzero |-> (k # 0) /\ (n[1] * n[2] # d[1] * d[2])]

\* One word's impact: the factors of its numerator and denominator, the
\* whole taken `mult` times when the word is a header word.
Impact(m, w, l_ws, header_word_set, mult) ==
    LET c_w_s  == CountsGet(m.counts, w)[1]
        c_w_ns == CountsGet(m.counts, w)[2]
        n == <<c_w_s + 1, m.non_spams + l_ws>>
        d == <<m.spams + l_ws, c_w_ns + 1>>
        k == IF w \in header_word_set THEN mult ELSE 1
    IN  [num |-> Repeat[n, k], den |-> Repeat[d, k],
         nonzero |-> (k # 0) /\ (n[1] * n[2] # d[1] * d[2])]

\* ln_p_ratio += impact
AddScores[x \in Scores, y \in Scores] ==
    [num |-> x.num \o y.num, den |-> x.den \o y.den,
     nonzero |-> x.nonzero \/ y.nonzero]

RECURSIVE SumImpacts(_, _, _, _, _)
SumImpacts(m, todo, l_ws, header_word_set, mult) ==
    IF todo = {} THEN [num |-> << >>, den |-> << >>, nonzero |-> FALSE]
    ELSE AddScores[
            Impact(m, CHOOSE x \in todo : TRUE, l_ws, header_word_set, mult),
            SumImpacts(m, todo \ {CHOOSE x \in todo : TRUE}, l_ws,
                       header_word_set, mult)]

\* check_spam with l_ws the number of words the model knows
check_spam_vocabulary(m, word_list, header_word_list, header_impact_multiplier) ==
    AddScores[
        [num |-> <<m.spams + 1>>, den |-> <<m.non_spams + 1>>,
         nonzero |-> m.spams # m.non_spams],
        SumImpacts(m, word_list, Cardinality(DOMAIN m.counts),
                   header_word_list, header_impact_multiplier)]

\* check_spam: the base term and the impact of every word of the set
check_spam(m, word_list, header_word_list, header_impact_multiplier) ==
    AddScores[
        [num |-> <<m.spams + 1>>, den |-> <<m.non_spams + 1>>,
         nonzero |-> m.spams # m.non_spams],
        SumImpacts(m, word_list, Cardinality(word_list), header_word_list,
                   header_impact_multiplier)]

\* get_base: ln((spams + 1) / (non_spams + 1))
get_base(m) ==
    [num |-> <<m.spams + 1>>, den |-> <<m.non_spams + 1>>,
     nonzero |-> m.spams # m.non_spams]

\* The sign of the real number a score stands for.
ExactSign(score) == CmpProducts(score.num, score.den)

\* Two scores are the same real number.
SameScore(x, y) == CmpProducts(x.num \o y.den, x.den \o y.num) = 0

SignsGiven[e \in {-1, 0, 1}, nonzero \in BOOLEAN] ==
    IF e # 0 THEN {e} ELSE IF nonzero THEN {-1, 0, 1} ELSE {0}

SignsOf[score \in Scores] ==
    SignsGiven[CmpProducts(score.num, score.den), score.nonzero]

\* The signs the float can have: the exact sign, except that a sum of
\* terms that cancel exactly is left with a rounding residue.
Signs(score) == SignsOf[score]

----------------------------------------------------------------------------
(* Documents.  A text stands for the content of a markdown file; pandoc    *)
(* reads it into a list of blocks.  A block carries its position, its      *)
(* kind and the words the tokenizer finds in its plain rendering.          *)

H(i, ws) == [id |-> i, kind |-> "Header", words |-> ws]
P(i, ws) == [id |-> i, kind |-> "Para", words |-> ws]

\* pandoc.read(text, format='gfm')[1] for the texts of the model
PandocRead(txt) ==
    CASE txt = 1 -> <<H(1, {"a"}), P(2, {"a", "c"}), H(3, {"b"}), P(4, {"b", "c"})>>
      [] txt = 2 -> <<H(1, {"b"}), P(2, {"b"})>>
      [] txt = 3 -> <<H(1, {"a"}), P(2, {"b"}), P(3, {"c"})>>
      [] txt = 4 -> << >>
      [] txt = 5 -> <<P(1, {"a"}), H(2, {"b"})>>
      [] txt = 6 -> <<H(1, {"b"}), P(2, {"b"}), H(3, {"a"}),
                      H(4, {"b", "c"}), P(5, {"b"}), P(6, {"c"})>>

Texts == 1..6

RECURSIVE SectionsFrom(_, _)
SectionsFrom(blocks, result) ==
    IF blocks = << >> THEN [err |-> "", result |-> result]
    ELSE IF Head(blocks).kind = "Header"
      THEN SectionsFrom(Tail(blocks), Append(result, <<Head(blocks)>>))
    ELSE IF result = << >>
      THEN [err |-> "IndexError", result |-> result]
    ELSE SectionsFrom(Tail(blocks),
             [result EXCEPT ![Len(result)] = Append(@, Head(blocks))])

\* sections_from_doc: err is "IndexError" where result[-1] is taken of an
\* empty list
sections_from_doc(doc) == SectionsFrom(doc, << >>)

\* list(jieba.cut(pandoc.write(sec, format='plain'))), as a set
PlainCut(sec) == UNION {sec[i].words : i \in DOMAIN sec}

\* list(jieba.cut(pandoc.write(sec[0], format='plain').strip())), as a set
HeaderCut(sec) == sec[1].words

\* header_impact_multiplier=5.0
HeaderImpactMultiplier == 5

\* nb.check_spam(cut, header_word_list=..., header_impact_multiplier=5.0)
SectionScore(m, sec) ==
    check_spam(m, PlainCut(sec), HeaderCut(sec), HeaderImpactMultiplier)

\* The signs the scores of the sections can have, one per section.
RECURSIVE Guesses(_, _)
Guesses(m, sections) ==
    IF sections = << >> THEN {<< >>}
    ELSE {<<g>> \o rest :
            g \in Signs(SectionScore(m, Head(sections))),
            rest \in Guesses(m, Tail(sections))}

RECURSIVE ExtendWhere(_, _)
ExtendWhere(sections, keep) ==
    IF sections = << >> THEN << >>
    ELSE (IF Head(keep) THEN Head(sections) ELSE << >>)
         \o ExtendWhere(Tail(sections), Tail(keep))

\* a filter that keeps what the model scores as spam
filter_body_keeps_spam(sections, g) ==
    ExtendWhere(sections, [i \in DOMAIN sections |-> g[i] > 0])

\* a filter whose test is guess <= 0
proc_keeps_zero(sections, g) ==
    ExtendWhere(sections, [i \in DOMAIN sections |-> g[i] <= 0])

\* a filter that drops the content of a section and keeps its header
proc_all_keeps_headers(sections, g) ==
    IF sections = << >> THEN << >>
    ELSE (IF Head(g) < 0 THEN Head(sections) ELSE <<Head(sections)[1]>>)
         \o ExtendWhere(Tail(sections),
                        [i \in DOMAIN Tail(sections) |-> Tail(g)[i] < 0])

\* filter_body, given the sign g[i] of each section's score
filter_body(sections, g) ==
    ExtendWhere(sections, [i \in DOMAIN sections |-> g[i] < 0])

\* the loop of proc
proc_filtered_body(sections, g) ==
    ExtendWhere(sections, [i \in DOMAIN sections |-> g[i] < 0])

\* the loop of proc_all
proc_all_filtered_body(sections, g) ==
    ExtendWhere(sections, [i \in DOMAIN sections |-> g[i] < 0])

----------------------------------------------------------------------------
(* The publisher: data *)

\* issue files weekly/docs/issue-1.md .. issue-N.md, in the order of
\* all_doc_paths()
NumIssues == 2
Issues == 1..NumIssues

\* the texts an issue file can hold
IssueTexts == {1, 2, 5}

\* the clock does not pass MaxTime
MaxTime == 2

\* clock ticks per second: formatdate() drops the fraction of a second
TicksPerSecond == 2

\* md5(self.text.encode()).hexdigest(): taken to be free of collisions
Md5(t) == <<"md5", t>>

\* email.utils.formatdate(pub_date): the date to the second
FormatDate(pub_date) == [rfc2822 |-> pub_date \div TicksPerSecond]

\* a file that is not there
NoFile == [state |-> "none", src |-> 0, body |-> << >>]

\* what is left of a file whose write failed after it was opened
PartialFile == [state |-> "partial", src |-> 0, body |-> << >>]

NoRss == [state |-> "none", items |-> << >>]

\* what is recorded of the last proc_all run: how it ended, whether it
\* followed a completed run over the same content, and its check_spam calls
\* in the loop over the issues and in make_rss, and how often the sections
\* of each issue were classified
NoRun == [status |-> "none", second |-> FALSE, loop_calls |-> 0,
          rss_calls |-> 0, saved |-> FALSE, passes |-> [p \in Issues |-> 0]]

\* an entry of an unchanged issue that takes the clock's date
LazyPost_now(pub_date, p, t) ==
    [pub_date |-> now, path |-> p, lazy |-> TRUE, text |-> t,
     body |-> << >>]

\* key=lambda x: x[0]
SortKey(c) == c.pub_date

RECURSIVE InsertDesc_before_equal(_, _)
\* an insertion that puts c in front of the entries of its own key
InsertDesc_before_equal(sorted, c) ==
    IF sorted = << >> THEN <<c>>
    ELSE IF Head(sorted).pub_date > c.pub_date
      THEN <<Head(sorted)>> \o InsertDesc_before_equal(Tail(sorted), c)
    ELSE <<c>> \o sorted

\* one step of the stable insertion of c into a list sorted by key,
\* greatest first: c goes behind every entry whose key is not smaller
RECURSIVE InsertDesc(_, _)
InsertDesc(sorted, c) ==
    IF sorted = << >> THEN <<c>>
    ELSE IF SortKey(Head(sorted)) >= SortKey(c)
      THEN <<Head(sorted)>> \o InsertDesc(Tail(sorted), c)
    ELSE <<c>> \o sorted

\* list.sort(key=lambda x: x[0], reverse=True): a stable sort, entries with
\* equal keys keep their order
RECURSIVE SortDesc(_, _)
SortDesc(todo, sorted) ==
    IF todo = << >> THEN sorted
    ELSE SortDesc(Tail(todo), InsertDesc(sorted, Head(todo)))

\* last_posts[:6]
FeedSize == 6

\* the last 6 entries instead of the first
Truncate_tail(posts) ==
    SubSeq(posts, IF Len(posts) < FeedSize THEN 1
                  ELSE Len(posts) - FeedSize + 1, Len(posts))

\* an append that does not sort
last_posts_append_unsorted(posts, c) ==
    SubSeq(Append(posts, c), 1,
           IF Len(posts) < FeedSize THEN Len(posts) + 1 ELSE FeedSize)

Truncate(posts) == SubSeq(posts, 1, IF Len(posts) < FeedSize THEN Len(posts) ELSE FeedSize)

\* last_posts_append(c): append, sort by date descending, keep the first 6
last_posts_append(posts, c) == Truncate(SortDesc(Append(posts, c), << >>))

\* the entry of an unchanged issue, (pub_date, path_out, doc): a Doc
LazyPost(pub_date, p, t) ==
    [pub_date |-> pub_date, path |-> p, lazy |-> TRUE, text |-> t,
     body |-> << >>]

\* an entry of a published issue that carries the Doc, not the body
FilteredPost_doc(pub_date, p, t, filtered_body) ==
    [pub_date |-> pub_date, path |-> p, lazy |-> TRUE, text |-> t,
     body |-> << >>]

\* the entry of a published issue, (pub_date, path_out, filtered_body)
FilteredPost(pub_date, p, t, filtered_body) ==
    [pub_date |-> pub_date, path |-> p, lazy |-> FALSE, text |-> t,
     body |-> filtered_body]

\* no proc_all run yet, the issues holding the texts txts
InitPub(txts) ==
    /\ text = txts
    /\ now = 0
    /\ pub_file = << >>
    /\ out_file = [p \in Issues |-> NoFile]
    /\ rss_file = NoRss
    /\ pub_dates = << >>
    /\ idx = 0
    /\ changed = FALSE
    /\ last_posts = << >>
    /\ offered = {}
    /\ run = NoRun
    /\ prev = [completed |-> FALSE, text |-> << >>]

----------------------------------------------------------------------------
(* Training commands *)

Labelled == {"spam", "not_spam"} \X (SUBSET Words)

NoMarks == [c \in Labelled |-> 0]

\* the bag mk with one more call c
AddMark(mk, c) == [d \in Labelled |-> IF d = c THEN mk[d] + 1 ELSE mk[d]]

\* training calls made so far, as the model counts them
TotalMarks == nb.spams + nb.non_spams

NoProc == [text |-> 0, err |-> "", guess |-> << >>, out |-> << >>]

\* train / mark, answer 'y': load_nb, nb.mark_spam(cut), dump_nb
TrainSpam(W) ==
    /\ pc = "idle"
    /\ TotalMarks < MaxTrain
    /\ nb' = mark_spam(nb, W)
    /\ marks' = AddMark(marks, <<"spam", W>>)
    /\ cut' = {} /\ yn' = "" /\ guess' = 0 /\ reps' = 0
    /\ proc_res' = NoProc
    /\ UNCHANGED pc
    /\ UNCHANGED pubvars

\* train / mark, answer 'n': load_nb, nb.mark_not_spam(cut), dump_nb
TrainNotSpam(W) ==
    /\ pc = "idle"
    /\ TotalMarks < MaxTrain
    /\ nb' = mark_not_spam(nb, W)
    /\ marks' = AddMark(marks, <<"not_spam", W>>)
    /\ cut' = {} /\ yn' = "" /\ guess' = 0 /\ reps' = 0
    /\ proc_res' = NoProc
    /\ UNCHANGED pc
    /\ UNCHANGED pubvars

\* interactive, 'm n s' answered 'y': the first nb.mark_spam(cut)
MarkYes(W) ==
    /\ pc = "idle"
    /\ TotalMarks < MaxTrain
    /\ nb' = mark_spam(nb, W)
    /\ marks' = AddMark(marks, <<"spam", W>>)
    /\ cut' = W
    /\ yn' = "y"
    /\ reps' = 0
    /\ pc' = "while_spam"
    /\ proc_res' = NoProc
    /\ UNCHANGED guess
    /\ UNCHANGED pubvars

\* while nb.check_spam(cut) < 0: nb.mark_spam(cut); then dump_nb()
WhileSpam ==
    /\ pc = "while_spam"
    /\ \E g \in Signs(check_spam(nb, cut, {}, 1)) :
        /\ guess' = g
        /\ IF g < 0
             THEN /\ nb.spams < MaxCount /\ nb.non_spams < MaxCount
                  /\ nb' = mark_spam(nb, cut)
                  /\ marks' = AddMark(marks, <<"spam", cut>>)
                  /\ reps' = reps + 1
                  /\ UNCHANGED pc
             ELSE /\ pc' = "idle"
                  /\ UNCHANGED <<nb, marks, reps>>
    /\ UNCHANGED <<cut, yn, proc_res>>
    /\ UNCHANGED pubvars

\* interactive, 'm n s' answered 'n': the first nb.mark_not_spam(cut)
MarkNo(W) ==
    /\ pc = "idle"
    /\ TotalMarks < MaxTrain
    /\ nb' = mark_not_spam(nb, W)
    /\ marks' = AddMark(marks, <<"not_spam", W>>)
    /\ cut' = W
    /\ yn' = "n"
    /\ reps' = 0
    /\ pc' = "while_not_spam"
    /\ proc_res' = NoProc
    /\ UNCHANGED guess
    /\ UNCHANGED pubvars

\* the not-spam loop with the body of the spam loop
WhileNotSpam_marks_spam ==
    /\ pc = "while_not_spam"
    /\ \E g \in Signs(check_spam(nb, cut, {}, 1)) :
        /\ guess' = g
        /\ IF g > 0
             THEN /\ nb.spams < MaxCount /\ nb.non_spams < MaxCount
                  /\ nb' = mark_spam(nb, cut)
                  /\ marks' = AddMark(marks, <<"spam", cut>>)
                  /\ reps' = reps + 1
                  /\ UNCHANGED pc
             ELSE /\ pc' = "idle"
                  /\ UNCHANGED <<nb, marks, reps>>
    /\ UNCHANGED <<cut, yn, proc_res>>
    /\ UNCHANGED pubvars

\* while nb.check_spam(cut) > 0: nb.mark_not_spam(cut); then dump_nb()
WhileNotSpam ==
    /\ pc = "while_not_spam"
    /\ \E g \in Signs(check_spam(nb, cut, {}, 1)) :
        /\ guess' = g
        /\ IF g > 0
             THEN /\ nb.spams < MaxCount /\ nb.non_spams < MaxCount
                  /\ nb' = mark_not_spam(nb, cut)
                  /\ marks' = AddMark(marks, <<"not_spam", cut>>)
                  /\ reps' = reps + 1
                  /\ UNCHANGED pc
             ELSE /\ pc' = "idle"
                  /\ UNCHANGED <<nb, marks, reps>>
    /\ UNCHANGED <<cut, yn, proc_res>>
    /\ UNCHANGED pubvars

\* proc infile outfile: filter one document with the model as it is
Proc(t) ==
    /\ pc = "idle"
    /\ \E sections \in {sections_from_doc(PandocRead(t))} :
         IF sections.err # ""
           THEN proc_res' = [text |-> t, err |-> sections.err,
                             guess |-> << >>, out |-> << >>]
           ELSE \E g \in Guesses(nb, sections.result) :
                  proc_res' = [text |-> t, err |-> "", guess |-> g,
                               out |-> proc_filtered_body(sections.result, g)]
    /\ UNCHANGED <<nb, pc, cut, yn, guess, reps, marks>>
    /\ UNCHANGED pubvars

InitTrain ==
    /\ nb = NaiveBayesInit
    /\ pc = "idle"
    /\ cut = {}
    /\ yn = ""
    /\ guess = 0
    /\ reps = 0
    /\ marks = NoMarks
    /\ proc_res = NoProc
    /\ InitPub([p \in Issues |-> 1])

NextTrain ==
    \/ \E W \in SUBSET Words : TrainSpam(W)
    \/ \E W \in SUBSET Words : TrainNotSpam(W)
    \/ \E W \in SUBSET Words : MarkYes(W)
    \/ \E W \in SUBSET Words : MarkNo(W)
    \/ WhileSpam
    \/ WhileNotSpam

\* the training commands, interactive reinforcement included
SpecTrain == InitTrain /\ [][NextTrain]_vars

\* the loops are run to their end: the command blocks on nothing but them
SpecTrainFair ==
    SpecTrain /\ WF_vars(WhileSpam) /\ WF_vars(WhileNotSpam)

NextFilter ==
    \/ \E W \in SUBSET Words : TrainSpam(W)
    \/ \E W \in SUBSET Words : TrainNotSpam(W)
    \/ \E t \in Texts : Proc(t)

\* one-shot training and proc
SpecFilter == InitTrain /\ [][NextFilter]_vars

----------------------------------------------------------------------------
(* The publisher: proc_all and make_rss *)

\* training calls behind the model a behaviour of the publisher starts with
MaxPubTrain == 1

\* the sections of the issue texts, as word lists: what train, mark and
\* interactive m can label
TrainSets ==
    UNION {{PlainCut(sections_from_doc(PandocRead(t)).result[i]) :
                i \in DOMAIN sections_from_doc(PandocRead(t)).result} :
           t \in IssueTexts}

\* the models reached from the empty one by at most k training calls, each
\* with the bag of the calls made
RECURSIVE TrainedUpTo(_)
TrainedUpTo(k) ==
    IF k = 0 THEN {[nb |-> NaiveBayesInit, marks |-> NoMarks]}
    ELSE LET before == TrainedUpTo(k - 1)
         IN  before
             \cup {[nb |-> mark_spam(x.nb, W),
                    marks |-> AddMark(x.marks, <<"spam", W>>)] :
                        x \in before, W \in TrainSets}
             \cup {[nb |-> mark_not_spam(x.nb, W),
                    marks |-> AddMark(x.marks, <<"not_spam", W>>)] :
                        x \in before, W \in TrainSets}

\* a digest test that never succeeds
DigestNeverMatches(p) == p \in DOMAIN pub_dates /\ FALSE

\* pub_dates.get(path, (None, None)); digest == doc.md5
DigestMatches(p) ==
    p \in DOMAIN pub_dates /\ pub_dates[p][2] = Md5(text[p])

\* pub_dates[path] = pub_date, digest
SetRecord(table, p, rec) ==
    [q \in (DOMAIN table) \cup {p} |-> IF q = p THEN rec ELSE table[q]]

\* proc_all is left, by its end or by an exception: its locals are gone
Return ==
    /\ pub_dates' = << >>
    /\ idx' = 0
    /\ changed' = FALSE
    /\ last_posts' = << >>
    /\ offered' = {}

\* proc_all up to the loop: load_nb, load_pub_dates, an empty last_posts
RunStart ==
    /\ pc = "idle"
    /\ pc' = "loop"
    /\ pub_dates' = pub_file
    /\ idx' = 1
    /\ changed' = FALSE
    /\ last_posts' = << >>
    /\ offered' = {}
    /\ run' = [status |-> "running",
               second |-> prev.completed /\ prev.text = text,
               loop_calls |-> 0, rss_calls |-> 0, saved |-> FALSE,
               passes |-> [p \in Issues |-> 0]]
    /\ UNCHANGED <<nb, cut, yn, guess, reps, marks, proc_res>>
    /\ UNCHANGED <<text, now, pub_file, out_file, rss_file, prev>>

\* the loop at an issue whose digest is the stored one: the Doc is offered
\* with the stored date, nothing else is done
Unchanged ==
    /\ pc = "loop" /\ idx \in Issues
    /\ DigestMatches(idx)
    /\ LET c == LazyPost(pub_dates[idx][1], idx, text[idx])
       IN  /\ last_posts' = last_posts_append(last_posts, c)
           /\ offered' = offered \cup {c}
    /\ idx' = idx + 1
    /\ UNCHANGED <<nbvars, text, now, pub_file, out_file, rss_file,
                   pub_dates, changed, run, prev>>

\* the loop at a new or changed issue: every section is scored, the
\* filtered document written, the record set and the body offered
Publish ==
    /\ pc = "loop" /\ idx \in Issues
    /\ ~DigestMatches(idx)
    /\ \E sections \in {sections_from_doc(PandocRead(text[idx]))} :
        /\ sections.err = ""
        /\ \E g \in Guesses(nb, sections.result) :
            \E filtered_body \in {proc_all_filtered_body(sections.result, g)} :
              LET c == FilteredPost(now, idx, text[idx], filtered_body)
              IN  /\ out_file' = [out_file EXCEPT ![idx] =
                        [state |-> "ok", src |-> text[idx],
                         body |-> filtered_body]]
                  /\ last_posts' = last_posts_append(last_posts, c)
                  /\ offered' = offered \cup {c}
                  /\ run' = [run EXCEPT
                        !.loop_calls = @ + Len(sections.result),
                        !.passes[idx] = @ + 1]
    /\ changed' = TRUE
    /\ pub_dates' = SetRecord(pub_dates, idx, <<now, Md5(text[idx])>>)
    /\ idx' = idx + 1
    /\ UNCHANGED <<nbvars, text, now, pub_file, rss_file, prev>>

\* a failed write after which the table is saved all the same
WriteFail_saves_table ==
    /\ pc = "loop" /\ idx \in Issues
    /\ ~DigestMatches(idx)
    /\ \E sections \in {sections_from_doc(PandocRead(text[idx]))} :
        /\ sections.err = ""
        /\ run' = [run EXCEPT !.status = "aborted",
                              !.loop_calls = @ + Len(sections.result),
                              !.passes[idx] = @ + 1]
    /\ \E f \in {out_file[idx], PartialFile} :
          out_file' = [out_file EXCEPT ![idx] = f]
    /\ pc' = "idle"
    /\ prev' = [completed |-> FALSE, text |-> text]
    /\ Return
    /\ pub_file' = pub_dates
    /\ UNCHANGED <<nb, cut, yn, guess, reps, marks, proc_res>>
    /\ UNCHANGED <<text, now, rss_file>>

\* the same, but path_out.write_text raises: the run ends there, the file
\* is as it was or, opened and not written, cut short
WriteFail ==
    /\ pc = "loop" /\ idx \in Issues
    /\ ~DigestMatches(idx)
    /\ \E sections \in {sections_from_doc(PandocRead(text[idx]))} :
        /\ sections.err = ""
        /\ run' = [run EXCEPT !.status = "aborted",
                              !.loop_calls = @ + Len(sections.result),
                              !.passes[idx] = @ + 1]
    /\ \E f \in {out_file[idx], PartialFile} :
          out_file' = [out_file EXCEPT ![idx] = f]
    /\ pc' = "idle"
    /\ prev' = [completed |-> FALSE, text |-> text]
    /\ Return
    /\ UNCHANGED <<nb, cut, yn, guess, reps, marks, proc_res>>
    /\ UNCHANGED <<text, now, pub_file, rss_file>>

\* the same, but doc.sections raises IndexError: the run ends there
SectionsFail ==
    /\ pc = "loop" /\ idx \in Issues
    /\ ~DigestMatches(idx)
    /\ sections_from_doc(PandocRead(text[idx])).err # ""
    /\ run' = [run EXCEPT !.status = "aborted"]
    /\ pc' = "idle"
    /\ prev' = [completed |-> FALSE, text |-> text]
    /\ Return
    /\ UNCHANGED <<nb, cut, yn, guess, reps, marks, proc_res>>
    /\ UNCHANGED <<text, now, pub_file, out_file, rss_file>>

\* what make_rss makes of one entry: the body it renders, the signs it
\* computed for a Doc, the check_spam calls it made
Bodies(m, c) ==
    IF c.lazy
      THEN {[body |-> filter_body(sections_from_doc(PandocRead(c.text)).result, g),
             guess |-> g,
             calls |-> Len(sections_from_doc(PandocRead(c.text)).result)] :
                g \in Guesses(m, sections_from_doc(PandocRead(c.text)).result)}
      ELSE {[body |-> c.body, guess |-> << >>, calls |-> 0]}

\* one <item> of the feed
Item(c, b) ==
    [title |-> b.body[1], description |-> Tail(b.body), link |-> c.path,
     guid |-> c.path, pubDate |-> FormatDate(c.pub_date)]

\* the loop of make_rss over the entries left, after `items` were written
\* with `calls` calls of check_spam, the Docs of the issues `docs` having
\* been filtered: body[0] raises IndexError on an empty body, and the file
\* stays as far as it was written
RECURSIVE Render(_, _, _, _, _)
Render(m, posts, items, calls, docs) ==
    IF posts = << >>
      THEN {[err |-> "", items |-> items, calls |-> calls, docs |-> docs]}
    ELSE LET c == Head(posts)
             seen == IF c.lazy THEN Append(docs, c.path) ELSE docs
         IN  UNION
              {IF b.body = << >>
                 THEN {[err |-> "IndexError", items |-> items,
                        calls |-> calls + b.calls, docs |-> seen]}
                 ELSE Render(m, Tail(posts), Append(items, Item(c, b)),
                             calls + b.calls, seen) :
               b \in Bodies(m, c)}

make_rss(m, posts) == Render(m, posts, << >>, 0, << >>)

\* the passes of a run after make_rss filtered the Docs of `docs`
RECURSIVE AddPasses(_, _)
AddPasses(passes, docs) ==
    IF docs = << >> THEN passes
    ELSE AddPasses([passes EXCEPT ![Head(docs)] = @ + 1], Tail(docs))

\* a test that saves the table in every run
ShouldSave_always == changed \/ TRUE

\* if changed:
ShouldSave == changed

\* if changed: save_pub_dates(pub_dates)
SavedTable == IF ShouldSave THEN pub_dates ELSE pub_file

\* the end of proc_all: the table is saved if anything changed and the feed
\* is written
Finish ==
    /\ pc = "loop" /\ idx = NumIssues + 1
    /\ pub_file' = SavedTable
    /\ \E r \in make_rss(nb, last_posts) :
        /\ r.err = ""
        /\ rss_file' = [state |-> "ok", items |-> r.items]
        /\ run' = [run EXCEPT !.status = "completed", !.saved = ShouldSave,
                              !.rss_calls = r.calls,
                              !.passes = AddPasses(@, r.docs)]
    /\ pc' = "idle"
    /\ prev' = [completed |-> TRUE, text |-> text]
    /\ Return
    /\ UNCHANGED <<nb, cut, yn, guess, reps, marks, proc_res>>
    /\ UNCHANGED <<text, now, out_file>>

\* the same, but make_rss raises IndexError at an entry with an empty body
FinishRssFail ==
    /\ pc = "loop" /\ idx = NumIssues + 1
    /\ pub_file' = SavedTable
    /\ \E r \in make_rss(nb, last_posts) :
        /\ r.err # ""
        /\ rss_file' = [state |-> "partial", items |-> r.items]
        /\ run' = [run EXCEPT !.status = "aborted", !.saved = ShouldSave,
                              !.rss_calls = r.calls,
                              !.passes = AddPasses(@, r.docs)]
    /\ pc' = "idle"
    /\ prev' = [completed |-> FALSE, text |-> text]
    /\ Return
    /\ UNCHANGED <<nb, cut, yn, guess, reps, marks, proc_res>>
    /\ UNCHANGED <<text, now, out_file>>

\* an issue file is edited between two commands
Edit(p, t) ==
    /\ pc = "idle"
    /\ t # text[p]
    /\ text' = [text EXCEPT ![p] = t]
    /\ UNCHANGED <<nbvars, now, pub_file, out_file, rss_file, pub_dates,
                   idx, changed, last_posts, offered, run, prev>>

\* time passes
Tick ==
    /\ now < MaxTime
    /\ now' = now + 1
    /\ UNCHANGED <<nbvars, text, pub_file, out_file, rss_file, pub_dates,
                   idx, changed, last_posts, offered, run, prev>>

Init ==
    /\ \E x \in TrainedUpTo(MaxPubTrain) : nb = x.nb /\ marks = x.marks
    /\ pc = "idle"
    /\ cut = {}
    /\ yn = ""
    /\ guess = 0
    /\ reps = 0
    /\ proc_res = NoProc
    /\ \E txts \in [Issues -> IssueTexts] : InitPub(txts)

Next ==
    \/ RunStart
    \/ Unchanged
    \/ Publish
    \/ WriteFail
    \/ SectionsFail
    \/ Finish
    \/ FinishRssFail
    \/ \E p \in Issues, t \in IssueTexts : Edit(p, t)
    \/ Tick

\* proc_all runs, edits of the issues and the clock, under a trained model
Spec == Init /\ [][Next]_vars

----------------------------------------------------------------------------
(* The list of recent posts on its own *)

\* entries offered to the list in one behaviour
MaxOffers == 7

\* the dates they carry are 0 .. MaxStamp
MaxStamp == 6

\* last_posts_append(c) for the entry of the next issue, of any date: the
\* loop of proc_all calls it once per issue, with the stored date of an
\* unchanged issue and the clock's of a published one
OfferEntry(d) ==
    /\ pc = "loop"
    /\ Cardinality(offered) < MaxOffers
    /\ LET c == LazyPost(d, Cardinality(offered) + 1, 1)
       IN  /\ last_posts' = last_posts_append(last_posts, c)
           /\ offered' = offered \cup {c}
    /\ UNCHANGED <<nbvars, text, now, pub_file, out_file, rss_file,
                   pub_dates, idx, changed, run, prev>>

InitFeed ==
    /\ nb = NaiveBayesInit
    /\ pc = "loop"
    /\ cut = {}
    /\ yn = ""
    /\ guess = 0
    /\ reps = 0
    /\ marks = NoMarks
    /\ proc_res = NoProc
    /\ InitPub([p \in Issues |-> 1])

NextFeed == \E d \in 0..MaxStamp : OfferEntry(d)

\* any sequence of offers to an empty list
SpecFeed == InitFeed /\ [][NextFeed]_vars

----------------------------------------------------------------------------
(* Claims about the word model and the filter *)

\* every block of the section is in the output / none is
Retained(sec, out) ==
    \A j \in DOMAIN sec : \E k \in DOMAIN out : out[k] = sec[j]

Dropped(sec, out) ==
    \A j \in DOMAIN sec : \A k \in DOMAIN out : out[k] # sec[j]

\* what filter_body, proc and proc_all make of the same sections and scores
Outputs(sections, g) ==
    {filter_body(sections, g), proc_filtered_body(sections, g),
     proc_all_filtered_body(sections, g)}

\* C1 as stated: in filter_body, proc and the loop of proc_all, with the
\* score of a section being check_spam over its tokens, header tokens
\* weighted 5, a section is dropped exactly when its score is < 0 and every
\* section of score >= 0, 0 included, is retained.
C1_AsStated ==
    \A t \in Texts :
        LET s == sections_from_doc(PandocRead(t))
        IN  s.err = "" =>
              \A g \in Guesses(nb, s.result) :
                \A out \in Outputs(s.result, g) :
                  \A i \in DOMAIN s.result :
                    /\ Dropped(s.result[i], out) <=> g[i] < 0
                    /\ g[i] >= 0 => Retained(s.result[i], out)

\* C1 amended: in filter_body, proc and the loop of proc_all a section is
\* retained exactly when its score is < 0, and every section of score >= 0,
\* 0 included, is dropped; so was every section of the document proc last
\* filtered.
C1_RetainedIffNegative ==
    /\ \A t \in Texts :
          LET s == sections_from_doc(PandocRead(t))
          IN  s.err = "" =>
                \A g \in Guesses(nb, s.result) :
                  \A out \in Outputs(s.result, g) :
                    \A i \in DOMAIN s.result :
                      /\ Retained(s.result[i], out) <=> g[i] < 0
                      /\ g[i] >= 0 => Dropped(s.result[i], out)
    /\ (proc_res.text # 0 /\ proc_res.err = "") =>
          LET secs == sections_from_doc(PandocRead(proc_res.text)).result
          IN  /\ proc_res.guess \in Guesses(nb, secs)
              /\ \A i \in DOMAIN secs :
                    /\ Retained(secs[i], proc_res.out) <=> proc_res.guess[i] < 0
                    /\ proc_res.guess[i] >= 0 => Dropped(secs[i], proc_res.out)

\* C1 witness: proc has filtered a document with a section of score 0,
\* which it dropped, and a section of score < 0, which it kept
C1_Witness ==
    /\ proc_res.text # 0 /\ proc_res.err = ""
    /\ LET secs == sections_from_doc(PandocRead(proc_res.text)).result
       IN  \E i, j \in DOMAIN secs :
              /\ proc_res.guess[i] = 0 /\ Dropped(secs[i], proc_res.out)
              /\ proc_res.guess[j] < 0 /\ Retained(secs[j], proc_res.out)

\* out is made of blocks of doc in their order, and of each section of doc
\* it holds either all the blocks, one after the other, or none: all if
\* the section is retained (score < 0), none if not
WholeSections(doc, sections, g, out) ==
    /\ \A k \in DOMAIN out :
          out[k].id \in DOMAIN doc /\ out[k] = doc[out[k].id]
    /\ \A k \in DOMAIN out :
          k < Len(out) => out[k].id < out[k + 1].id
    /\ \A i \in DOMAIN sections :
          /\ IF g[i] < 0
               THEN \E k \in DOMAIN out :
                      /\ k + Len(sections[i]) - 1 <= Len(out)
                      /\ \A j \in DOMAIN sections[i] :
                            out[k + j - 1] = sections[i][j]
               ELSE Dropped(sections[i], out)
          /\ (\E k \in DOMAIN out : out[k] = sections[i][1])
                <=> Retained(sections[i], out)

\* C17: what filter_body and the loop of proc_all (and of proc) return is
\* the retained sections of the issue one after the other in their order,
\* each whole: the header of a section is in the output exactly if all its
\* blocks are, right behind it, and no block of a dropped section is.
C17_WholeSectionsInOrder ==
    /\ \A t \in Texts :
          LET doc == PandocRead(t)
              s == sections_from_doc(doc)
          IN  s.err = "" =>
                \A g \in Guesses(nb, s.result) :
                  \A out \in Outputs(s.result, g) :
                    WholeSections(doc, s.result, g, out)
    /\ (proc_res.text # 0 /\ proc_res.err = "") =>
          LET doc == PandocRead(proc_res.text)
          IN  WholeSections(doc, sections_from_doc(doc).result,
                            proc_res.guess, proc_res.out)

\* C17 witness: of a document of three sections the first and the third
\* were retained and the second, a header alone, was dropped
C17_Witness ==
    /\ proc_res.text = 6 /\ proc_res.err = ""
    /\ proc_res.guess[1] < 0 /\ proc_res.guess[2] >= 0
    /\ proc_res.guess[3] < 0
    /\ Len(proc_res.out) = 5

\* an issue of two sections with token sets A and B and header tokens hA, hB
TwoSections(A, hA, B, hB) ==
    << <<H(1, hA), P(2, A)>>, <<H(3, hB), P(4, B)>> >>

\* the model was trained, from empty, by one mark_spam(A) and one
\* mark_not_spam(B)
TrainedOnceEach(A, B) ==
    marks = [c \in Labelled |->
                IF c = <<"spam", A>> \/ c = <<"not_spam", B>> THEN 1 ELSE 0]

\* C2: from an empty model, after one mark_spam(A) and one mark_not_spam(B)
\* with A \ B and B \ A non-empty, filtering the issue [A, B] with header
\* weight 5 gives exactly the blocks of B: every block of B, no block of A.
\* Checked of filter_body for every choice of header tokens, and of the
\* output of proc whenever it ran on such an issue.
C2_EndToEnd ==
    \A A \in SUBSET Words, B \in SUBSET Words :
        (A \ B # {} /\ B \ A # {} /\ TrainedOnceEach(A, B)) =>
            /\ \A hA \in SUBSET A, hB \in SUBSET B :
                 \A g \in Guesses(nb, TwoSections(A, hA, B, hB)) :
                    filter_body(TwoSections(A, hA, B, hB), g)
                        = <<H(3, hB), P(4, B)>>
            /\ (proc_res.text # 0 /\ proc_res.err = "") =>
                 LET secs == sections_from_doc(PandocRead(proc_res.text)).result
                 IN  (Len(secs) = 2 /\ PlainCut(secs[1]) = A
                                   /\ PlainCut(secs[2]) = B)
                        => proc_res.out = secs[2]

\* C2 witness: proc ran on text 1 under the model trained by
\* mark_spam({a, c}) and mark_not_spam({b, c}) and wrote the second section
C2_Witness ==
    /\ TrainedOnceEach({"a", "c"}, {"b", "c"})
    /\ proc_res.text = 1
    /\ proc_res.out = <<H(3, {"b"}), P(4, {"b", "c"})>>

\* C3 as stated: when the reinforced spam labelling of a non-empty W
\* returns, check_spam(W) is < 0; when the reinforced not-spam labelling
\* returns, check_spam(W) is > 0 (guess is the value of check_spam(W) the
\* loop tested last, under the model as it is left).
C3_AsStated ==
    (pc = "idle" /\ cut # {}) =>
        /\ (yn = "y" => guess < 0)
        /\ (yn = "n" => guess > 0)

\* what the loops do leave: check_spam(W) >= 0 after the spam labelling,
\* <= 0 after the not-spam labelling, 0 being a score the filter drops
C3_ReinforceAgrees ==
    (pc = "idle" /\ cut # {} /\ yn # "") =>
        /\ guess \in Signs(check_spam(nb, cut, {}, 1))
        /\ (yn = "y" => guess >= 0)
        /\ (yn = "n" => guess <= 0)

\* C3 witness: a reinforced not-spam labelling that repeated mark_not_spam
\* has returned with check_spam(W) exactly 0, every term of it being 0
C3_Witness ==
    /\ pc = "idle" /\ yn = "n" /\ cut # {} /\ reps >= 1
    /\ guess = 0
    /\ Signs(check_spam(nb, cut, {}, 1)) = {0}

\* C4: for a non-empty word set both reinforcement loops end after finitely
\* many repeated training calls, and the word set (hence its size L) is the
\* same through the repeats.
C4_LoopsTerminate ==
    /\ (pc = "while_spam" /\ cut # {}) ~> (pc = "idle")
    /\ (pc = "while_not_spam" /\ cut # {}) ~> (pc = "idle")
    /\ [][pc # "idle" => cut' = cut]_vars

\* C4 witness: a reinforced not-spam labelling has returned after repeats
C4_Witness ==
    pc = "idle" /\ yn = "n" /\ cut # {} /\ reps >= 2

----------------------------------------------------------------------------
(* Claims about the publisher *)

RECURSIVE SectionCount(_, _)
\* the sections of the first k issues of the contents txts
SectionCount(txts, k) ==
    IF k = 0 THEN 0
    ELSE Len(sections_from_doc(PandocRead(txts[k])).result)
         + SectionCount(txts, k - 1)

\* C5 as stated: a completed proc_all run that follows a completed run over
\* the same issue content makes no check_spam call at all, the rendering of
\* the feed included.
C5_AsStated ==
    (run.status = "completed" /\ run.second) =>
        run.loop_calls + run.rss_calls = 0

\* C5 amended: such a run makes no check_spam call in the loop over the
\* issues; make_rss then calls check_spam once for every section of every
\* issue in the feed (all the issues, there being no more than 6).
C5_SecondRunCalls ==
    (run.status = "completed" /\ run.second) =>
        /\ run.loop_calls = 0
        /\ ~run.saved
        /\ run.rss_calls = SectionCount(prev.text, NumIssues)
        /\ run.rss_calls >= NumIssues

\* C5 witness: a second run over the same content has completed; between
\* its issues make_rss classified three sections or more
C5_Witness ==
    /\ pc = "idle" /\ run.status = "completed" /\ run.second
    /\ run.rss_calls > NumIssues

C14_SavedIffChanged ==
    [][/\ (pc = "loop" /\ pc' = "idle" /\ run'.status = "completed") =>
            /\ run'.saved <=> \E c \in offered : ~c.lazy
            /\ run'.saved <=> pub_file' # pub_file
            /\ run'.saved =>
                  /\ DOMAIN pub_file' = Issues
                  /\ \A c \in offered :
                        IF c.lazy
                          THEN pub_file'[c.path] = pub_file[c.path]
                          ELSE pub_file'[c.path] =
                                  <<c.pub_date, Md5(c.text)>>
                  /\ \A p \in DOMAIN pub_file : p \in DOMAIN pub_file'
       /\ pub_file' # pub_file =>
            /\ pc = "loop" /\ idx = NumIssues + 1
            /\ {c.path : c \in offered} = Issues
      ]_vars

\* C14 witness: a completed run has saved a table that holds a record it
\* loaded, older, next to one it made
C14_Witness ==
    /\ pc = "idle" /\ run.status = "completed" /\ run.saved
    /\ \E p, q \in DOMAIN pub_file :
          /\ pub_file[p][1] < pub_file[q][1]
          /\ pub_file[q][1] = now
          /\ run.rss_calls > 0

\* C15: in the step in which the write of the output of an issue fails,
\* the run ends; the outputs of the other issues stay as they are, those
\* the run wrote before being the documents it wrote; no later issue has
\* been or is classified or offered; neither pub_dates.json nor rss.xml is
\* written.
C15_WriteFailureAborts ==
    [][(/\ pc = "loop" /\ idx \in Issues
        /\ sections_from_doc(PandocRead(text[idx])).err = ""
        /\ run'.status = "aborted") =>
            /\ pc' = "idle"
            /\ \A p \in Issues \ {idx} : out_file'[p] = out_file[p]
            /\ \A c \in offered :
                  ~c.lazy => out_file'[c.path] =
                      [state |-> "ok", src |-> c.text, body |-> c.body]
            /\ out_file'[idx] \in {out_file[idx], PartialFile}
            /\ \A p \in Issues :
                  p > idx => /\ run'.passes[p] = 0
                             /\ \A c \in offered : c.path # p
            /\ pub_file' = pub_file
            /\ rss_file' = rss_file
            /\ ~run'.saved /\ run'.rss_calls = 0
      ]_vars

\* C15 witness: a run has ended at the failed write of the second issue,
\* which is cut short; the first, written in the same run, is on disk and
\* has no record in the persisted table
C15_Witness ==
    /\ pc = "idle" /\ run.status = "aborted" /\ ~run.saved
    /\ run.rss_calls = 0
    /\ run.passes[1] = 1 /\ run.passes[2] = 1
    /\ out_file[1].state = "ok" /\ out_file[1].src = text[1]
    /\ out_file[2].state = "partial"
    /\ 1 \notin DOMAIN pub_file

\* C18 as stated: every proc_all run that gets through its loop writes a
\* whole feed, one item for each entry of the list of recent posts, in the
\* order of the list, each with a title, a body, a link and a date;
\* whatever the model and the issues, an issue of which no section is
\* retained included.  (rss.xml is left partial only by a run whose
\* make_rss raised.)
C18_AsStated ==
    /\ rss_file.state # "partial"
    /\ (pc = "idle" /\ run.status = "completed") =>
          /\ rss_file.state = "ok"
          /\ Len(rss_file.items) = NumIssues
          /\ \A i \in DOMAIN rss_file.items :
                /\ rss_file.items[i].title.kind = "Header"
                /\ rss_file.items[i].link \in Issues
                /\ rss_file.items[i].pubDate =
                      FormatDate(pub_file[rss_file.items[i].link][1])
          /\ \A i, j \in DOMAIN rss_file.items :
                i < j => pub_file[rss_file.items[i].link][1]
                           >= pub_file[rss_file.items[j].link][1]

\* what does hold: a run that completes has written such a feed; a run
\* whose list holds an entry of empty body ends in make_rss, at that entry
C18_CompletedRunsWriteFeed ==
    /\ (pc = "idle" /\ run.status = "completed") =>
          /\ rss_file.state = "ok"
          /\ Len(rss_file.items) = NumIssues
          /\ \A i \in DOMAIN rss_file.items :
                /\ rss_file.items[i].title.kind = "Header"
                /\ rss_file.items[i].link \in Issues
                /\ rss_file.items[i].pubDate =
                      FormatDate(pub_file[rss_file.items[i].link][1])
          /\ \A i, j \in DOMAIN rss_file.items :
                i < j => pub_file[rss_file.items[i].link][1]
                           >= pub_file[rss_file.items[j].link][1]
    /\ rss_file.state = "partial" => Len(rss_file.items) < NumIssues

\* the persisted record of issue p holds the fingerprint of its content
Stored(p) ==
    p \in DOMAIN pub_file /\ pub_file[p][2] = Md5(text[p])

\* C6: in every step of a proc_all run, an issue whose content has the
\* stored fingerprint keeps its record, in memory and on disk, and its output
\* document, and the step of the loop that handles it offers it to the feed
\* with the stored date; the step that handles any other issue gives it the
\* record (current time, new fingerprint), and a record the run saves for
\* such an issue holds the new fingerprint and a time not after the saving.
\* Outside a run neither the records nor the outputs change.
C6_Frame ==
    [][/\ pc = "idle" => (pub_file' = pub_file /\ out_file' = out_file)
       /\ pc = "loop" =>
            \A p \in Issues :
              /\ Stored(p) =>
                    /\ out_file'[p] = out_file[p]
                    /\ p \in DOMAIN pub_file' /\ pub_file'[p] = pub_file[p]
                    /\ p \in DOMAIN pub_dates /\ pub_dates[p] = pub_file[p]
                    /\ (idx = p /\ idx' = p + 1) =>
                          /\ pub_dates' = pub_dates
                          /\ \E i \in DOMAIN last_posts' :
                                /\ last_posts'[i].path = p
                                /\ last_posts'[i].lazy
                                /\ last_posts'[i].pub_date = pub_file[p][1]
              /\ ~Stored(p) =>
                    /\ (idx = p /\ idx' = p + 1) =>
                          /\ pub_dates' = SetRecord(pub_dates, p,
                                                    <<now, Md5(text[p])>>)
                          /\ \E i \in DOMAIN last_posts' :
                                /\ last_posts'[i].path = p
                                /\ ~last_posts'[i].lazy
                                /\ last_posts'[i].pub_date = now
                    /\ (p \in DOMAIN pub_file' /\ pub_file' # pub_file) =>
                          /\ pub_file'[p][2] = Md5(text[p])
                          /\ pub_file'[p][1] <= now
      ]_vars

\* C6 witness: the loop of a run is through; it has offered an unchanged
\* issue with its stored date and published a changed one
C6_Witness ==
    /\ pc = "loop" /\ idx = NumIssues + 1 /\ changed
    /\ \E i, j \in DOMAIN last_posts :
          /\ last_posts[i].lazy /\ Stored(last_posts[i].path)
          /\ last_posts[i].pub_date < now
          /\ ~last_posts[j].lazy /\ last_posts[j].pub_date = now

\* C7 as stated: whenever the loop of a proc_all run finds the content of
\* an issue to have the fingerprint of its stored record, and so skips it,
\* the output document on disk is the one generated from content of that
\* fingerprint; runs ended by a failed write of an output included.
C7_SkipMeansValid ==
    (pc = "loop" /\ idx \in Issues /\ DigestMatches(idx)) =>
        /\ out_file[idx].state = "ok"
        /\ Md5(out_file[idx].src) = pub_dates[idx][2]

----------------------------------------------------------------------------
(* Claims about the list of recent posts *)

\* the dates of the entries are all different
DistinctDates(entries) ==
    \A c1, c2 \in entries : c1.pub_date = c2.pub_date => c1 = c2

\* the entries with fewer than FeedSize entries of a later date
Top(entries) ==
    {c \in entries :
        Cardinality({e \in entries : e.pub_date > c.pub_date}) < FeedSize}

\* C8: after every last_posts_append, whatever was offered, the list holds
\* at most 6 entries and their dates do not increase along it.
C8_AtMostSixSorted ==
    /\ Len(last_posts) <= FeedSize
    /\ \A i, j \in DOMAIN last_posts :
          i < j => last_posts[i].pub_date >= last_posts[j].pub_date

\* C8 witness: more than 6 entries were offered, two of the same date
C8_Witness ==
    /\ Cardinality(offered) > FeedSize
    /\ ~DistinctDates(offered)
    /\ Len(last_posts) = FeedSize

\* C9: after n offers of pairwise different dates, in any order, the list is
\* the min(n, 6) entries of the latest dates among all those offered, the
\* later date first.
C9_TopSixDescending ==
    DistinctDates(offered) =>
        /\ Len(last_posts) =
              (IF Cardinality(offered) < FeedSize THEN Cardinality(offered)
               ELSE FeedSize)
        /\ {last_posts[i] : i \in DOMAIN last_posts} = Top(offered)
        /\ \A i, j \in DOMAIN last_posts :
              i < j => last_posts[i].pub_date > last_posts[j].pub_date

\* C9 witness: 7 entries of different dates were offered, the latest
\* neither first nor last, and one is not in the list any more
C9_Witness ==
    /\ DistinctDates(offered)
    /\ Cardinality(offered) > FeedSize
    /\ Top(offered) # offered
    /\ \E c \in offered :
          /\ c.path \notin {1, Cardinality(offered)}
          /\ \A e \in offered : e.pub_date <= c.pub_date

\* c comes before e in the order of the list: the later date first, of two
\* entries of one date the one offered first (path is the offer's number)
Before(c, e) ==
    \/ c.pub_date > e.pub_date
    \/ c.pub_date = e.pub_date /\ c.path < e.path

\* C19: the list is a function of the offers made: it is the sequence, in
\* the order Before, of the entries that have fewer than 6 offered entries
\* before them.  So of two entries of one date the one offered first comes
\* first, and is the one kept where only one of them has room.
C19_StableTies ==
    /\ \A i, j \in DOMAIN last_posts :
          i < j => Before(last_posts[i], last_posts[j])
    /\ {last_posts[i] : i \in DOMAIN last_posts} =
          {c \in offered :
              Cardinality({e \in offered : Before(e, c)}) < FeedSize}
    /\ \A c \in offered :
          (\A i \in DOMAIN last_posts : last_posts[i] # c) =>
              \A i \in DOMAIN last_posts :
                  last_posts[i].pub_date = c.pub_date
                      => last_posts[i].path < c.path

\* C19 witness: of the entries of one date some are in the list and one,
\* offered later than those, is not
C19_Witness ==
    /\ Cardinality(offered) > FeedSize
    /\ \E c \in offered :
          /\ \A i \in DOMAIN last_posts : last_posts[i] # c
          /\ \E i \in DOMAIN last_posts :
                last_posts[i].pub_date = c.pub_date
    /\ \E i \in DOMAIN last_posts :
          i < Len(last_posts)
            /\ last_posts[i].pub_date = last_posts[i + 1].pub_date
            /\ last_posts[i].pub_date < MaxStamp

----------------------------------------------------------------------------
(* Claims about sections_from_doc *)

\* documents tried: every sequence of up to MaxBlocks blocks, headers and
\* others
MaxBlocks == 4

BlockDocs ==
    UNION {{[i \in 1..n |-> [id |-> i, kind |-> kinds[i], words |-> {"a"}]] :
                kinds \in [1..n -> {"Header", "Para"}]} : n \in 0..MaxBlocks}

RECURSIVE Concat(_)
Concat(seqs) == IF seqs = << >> THEN << >> ELSE Head(seqs) \o Concat(Tail(seqs))

\* the sections are the document cut at its headers
CutAtHeaders(doc, r) ==
    /\ r.err = ""
    /\ Concat(r.result) = doc
    /\ \A i \in DOMAIN r.result :
          /\ r.result[i] # << >>
          /\ r.result[i][1].kind = "Header"
          /\ \A j \in DOMAIN r.result[i] :
                j > 1 => r.result[i][j].kind # "Header"

\* C20 as stated: for every block sequence, the empty one and one whose
\* first block is no header included, sections_from_doc returns sections
\* that put together are the input, each beginning with a header and
\* holding no other; and proc gets the sections of every document.
C20_AsStated ==
    /\ \A doc \in BlockDocs : CutAtHeaders(doc, sections_from_doc(doc))
    /\ \A t \in Texts :
          CutAtHeaders(PandocRead(t), sections_from_doc(PandocRead(t)))
    /\ proc_res.err = ""

\* what does hold: so it is for the empty sequence and for every sequence
\* that begins with a header; for any other, result[-1] of the empty list
\* raises IndexError
C20_HeaderFirst ==
    \A doc \in BlockDocs \cup {PandocRead(t) : t \in Texts} :
        IF doc = << >> \/ doc[1].kind = "Header"
          THEN CutAtHeaders(doc, sections_from_doc(doc))
          ELSE sections_from_doc(doc).err = "IndexError"

\* C20 witness: proc has ended in the IndexError of sections_from_doc, on
\* the document that begins with a paragraph
C20_Witness ==
    /\ proc_res.text = 5
    /\ proc_res.err = "IndexError"
    /\ PandocRead(5)[1].kind = "Para"

----------------------------------------------------------------------------
(* Claims about the scores *)

\* header weights tried: none, the default 1.0, the 5.0 of the filter
Weights == {0, 1, HeaderImpactMultiplier}

\* C10: an untrained model scores every word set 0 whatever the header
\* words and the header weight; any model scores the empty word set as its
\* base term ln((spams + 1) / (non_spams + 1)).
C10_UntrainedZeroEmptyBase ==
    /\ (nb.spams = 0 /\ nb.non_spams = 0) =>
          \A W \in SUBSET Words, hd \in SUBSET Words, k \in Weights :
              Signs(check_spam(nb, W, hd, k)) = {0}
    /\ \A hd \in SUBSET Words, k \in Weights :
          /\ SameScore(check_spam(nb, {}, hd, k), get_base(nb))
          /\ Signs(check_spam(nb, {}, hd, k)) = Signs(get_base(nb))
          /\ SameScore(check_spam(nb, {}, hd, k),
                       [num |-> <<nb.spams + 1>>, den |-> <<nb.non_spams + 1>>])

\* C10 witness: a trained model whose base term, the score of the empty
\* word set, is not 0
C10_Witness ==
    /\ nb.spams = 2 /\ nb.non_spams = 1
    /\ ExactSign(check_spam(nb, {}, {}, 1)) = 1

\* the training calls made so far are exactly one mark_spam({a, b})
OnlySpamAB ==
    marks = [c \in Labelled |-> IF c = <<"spam", {"a", "b"}>> THEN 1 ELSE 0]

\* C11 as stated: on an empty model, after exactly one mark_spam({a, b}),
\* check_spam({a}) with no header words and weight 1 is
\* ln(2/1) + ln((2/3)/(1/3)), the logarithm of 4.
C11_AsStated ==
    OnlySpamAB =>
        SameScore(check_spam(nb, {"a"}, {}, 1), [num |-> <<4>>, den |-> <<1>>])

\* C11 amended: that score is ln(2/1) + ln((2/2)/(1/1)), the logarithm of
\* 2: the base term is ln 2 and the impact of a, with L = 1, is ln 1 = 0.
C11_ScoreIsLn2 ==
    OnlySpamAB =>
        /\ SameScore(check_spam(nb, {"a"}, {}, 1),
                     [num |-> <<2>>, den |-> <<1>>])
        /\ check_spam(nb, {"a"}, {}, 1).num = <<2, 2, 1>>
        /\ check_spam(nb, {"a"}, {}, 1).den = <<1, 2, 1>>
        /\ Signs(check_spam(nb, {"a"}, {}, 1)) = {1}

\* C11 witness: the model after one mark_spam({a, b}) and nothing else
C11_Witness ==
    /\ OnlySpamAB
    /\ nb.spams = 1 /\ nb.non_spams = 0
    /\ nb.counts["a"] = <<1, 0>> /\ nb.counts["b"] = <<1, 0>>

\* C12: for every model reached by training calls, the empty one included,
\* load(dump(model)), directly and through the JSON text of
\* naive_bayes.json, is a model of the same counts, spams and non_spams,
\* and hence of the same score for every input.
C12_DumpLoadRoundTrip ==
    /\ load(dump(nb)) = nb
    /\ LET loaded == load_nb(dump_nb(nb))
       IN  /\ loaded = nb
           /\ DOMAIN loaded.counts = DOMAIN nb.counts
           /\ \A w \in DOMAIN nb.counts : loaded.counts[w] = nb.counts[w]
           /\ loaded.spams = nb.spams
           /\ loaded.non_spams = nb.non_spams
           /\ \A W \in SUBSET Words : \A hd \in {{}, W} :
                 check_spam(loaded, W, hd, HeaderImpactMultiplier)
                   = check_spam(nb, W, hd, HeaderImpactMultiplier)

\* C12 witness: a model with both totals and a word counted on both sides
C12_Witness ==
    /\ nb.spams >= 1 /\ nb.non_spams >= 2
    /\ \E w \in DOMAIN nb.counts : nb.counts[w][1] >= 1 /\ nb.counts[w][2] >= 1
    /\ DOMAIN nb.counts # Words

RECURSIVE SumMarks(_, _)
\* the number of calls of the bag mk that are in the set calls
SumMarks(mk, calls) ==
    IF calls = {} THEN 0
    ELSE LET c == CHOOSE x \in calls : TRUE
         IN  mk[c] + SumMarks(mk, calls \ {c})

\* word lists of up to three tokens, repeats allowed
WordLists == UNION {[1..n -> Words] : n \in 0..3}

\* C16: from the empty model, after any training calls, spams is the number
\* of mark_spam calls and non_spams the number of mark_not_spam calls, every
\* count is >= 0, a word's spam (non-spam) count is the number of mark_spam
\* (mark_not_spam) calls whose words contained it and at most the total;
\* one more call with a word list raises the count of each of its words by
\* one, however often the word is in the list.
C16_CountsAreCallCounts ==
    /\ nb.spams = SumMarks(marks, {c \in Labelled : c[1] = "spam"})
    /\ nb.non_spams = SumMarks(marks, {c \in Labelled : c[1] = "not_spam"})
    /\ \A w \in Words :
          /\ CountsGet(nb.counts, w)[1] =
                SumMarks(marks, {c \in Labelled : c[1] = "spam" /\ w \in c[2]})
          /\ CountsGet(nb.counts, w)[2] =
                SumMarks(marks, {c \in Labelled :
                                    c[1] = "not_spam" /\ w \in c[2]})
          /\ CountsGet(nb.counts, w)[1] >= 0
          /\ CountsGet(nb.counts, w)[2] >= 0
          /\ CountsGet(nb.counts, w)[1] <= nb.spams
          /\ CountsGet(nb.counts, w)[2] <= nb.non_spams
          /\ w \in DOMAIN nb.counts <=>
                \E c \in Labelled : marks[c] > 0 /\ w \in c[2]
    /\ \A l \in WordLists :
          LET s == mark_spam(nb, word_set(l))
              n == mark_not_spam(nb, word_set(l))
          IN  /\ s.spams = nb.spams + 1 /\ s.non_spams = nb.non_spams
              /\ n.non_spams = nb.non_spams + 1 /\ n.spams = nb.spams
              /\ \A w \in Words :
                    LET inc == IF \E i \in DOMAIN l : l[i] = w THEN 1 ELSE 0
                        old == CountsGet(nb.counts, w)
                    IN  /\ CountsGet(s.counts, w) = <<old[1] + inc, old[2]>>
                        /\ CountsGet(n.counts, w) = <<old[1], old[2] + inc>>

\* C16 witness: calls of both kinds were made, one word set twice, and a
\* word is in some calls and not in others
C16_Witness ==
    /\ nb.spams >= 2 /\ nb.non_spams >= 1
    /\ \E c \in Labelled : marks[c] >= 2 /\ c[2] # {}
    /\ \E w \in Words :
          /\ CountsGet(nb.counts, w)[1] >= 1
          /\ CountsGet(nb.counts, w)[1] < nb.spams

====
